---- MODULE Spec2Model ----
(***************************************************************************)
(* LIN bus frame decoder (proto/arduino/lin_decoder.cpp).                  *)
(*                                                                         *)
(* Two execution contexts share the decoder: the Timer 2 compare-match     *)
(* ISR, which samples the RX line once per bit period, and main, which     *)
(* calls init(), readNextFrame(), hasErrors() and clearErrors().  The ISR   *)
(* runs to completion (interrupts are masked inside an AVR ISR), so one    *)
(* ISR invocation is one step; main can be interrupted between any two of  *)
(* its statements, so readNextFrame() and init() advance one statement per *)
(* step.                                                                   *)
(*                                                                         *)
(* An RxFrameBuffer is represented by its valid bytes, bytes[0] ..         *)
(* bytes[num_bytes - 1], as a sequence: num_bytes is its length, the store *)
(* bytes[num_bytes++] = b appends, and num_bytes = 0 empties it.           *)
(***************************************************************************)
EXTENDS Integers, Sequences, FiniteSets, TLC

\* ----- Program constants -----

\* RxFrameBuffer::kMaxBytes
kMaxBytes == 11

\* Frame buffer queue size.
kMaxFrameBuffers == 8

\* Hardware clock ticks per serial bit: clock::kHardwareTicksPerSecond / BAUD,
\* 26 at 9600 baud.
kClockTicksPerBit == 26

\* Consecutive low samples that make a break.
kBreakLowBits == 10

\* Fewest bytes of a valid frame (sync, id, data, checksum).
kMinFrameBytes == 4

\* Time limit, in hardware clock ticks, of the two waits after a break.
kPostBreakTimeout == 255

\* Bit periods the decoder waits for the start bit of a next byte.
kInterByteBits == 4

\* ----- Bounds of the model -----

\* uint16: the width of clock::hardware_ticks_mod_16_bit() and of clock_diff.
kClockModulus == 65536

\* Frames the line completes in one run of Spec.
MaxFrames == 2

\* Frames the line completes in one run of SpecOverrun.
MaxFramesOverrun == 10

\* Frames the line completes in one run of SpecPair.
MaxFramesPair == 1

\* Frames the line completes in one run of SpecLive.
MaxFramesLive == 2

\* Hardware clock ticks one busy wait of SpecWait is followed for.
MaxElapsed == 260

\* Value of every byte of a frame but its first, in Spec and SpecOverrun.
FillByte == 165

\* ----- Values -----

\* Elapsed hardware clock ticks at which a busy wait may see the awaited level:
\* at once, just inside and just outside each time limit.
WaitTicks == {0, kInterByteBits * kClockTicksPerBit - 1, kInterByteBits * kClockTicksPerBit,
              kPostBreakTimeout - 1, kPostBreakTimeout}

RECURSIVE Pow2(_)
Pow2(n) == IF n = 0 THEN 1 ELSE 2 * Pow2(n - 1)

\* Bit i (0 = least significant) of v.
Bit(v, i) == (v \div Pow2(i)) % 2

\* a | b on uint8.
RECURSIVE BitOrFrom(_, _, _)
BitOrFrom(a, b, i) ==
  IF i = 8 THEN 0
  ELSE (IF Bit(a, i) = 1 \/ Bit(b, i) = 1 THEN Pow2(i) ELSE 0) + BitOrFrom(a, b, i + 1)

BitOr(a, b) == BitOrFrom(a, b, 0)

\* a << 1 on uint8.
Shl1(a) == (2 * a) % 256

\* ++x on uint8.
Inc8(x) == (x + 1) % 256

VARIABLES
  \* ISR to main transfer
  request_buffer_has_data, request_buffer,
  \* ISR ring buffer
  rx_frame_buffers, head_frame_buffer, tail_frame_buffer,
  \* state machine
  state, low_bits_counter_,
  bytes_read_, bits_read_in_byte_, byte_buffer_, byte_buffer_bit_mask_,
  \* error flag
  error_flag,
  \* Timer 2 compare-match A interrupt enable (TIMSK2.OCIE2A)
  OCIE2A,
  \* main: the next statement of init(), the next statement of readNextFrame(),
  \* the caller's RxFrameBuffer, the last value a call returned
  init_pc, read_pc, buffer, ret,
  \* the line: the frames it has completed, the samples of the byte being
  \* received, the length of the current run of low samples until a run reaches 10
  sent, samples, low_run,
  \* the decoder of a second run on the same samples in which main calls nothing
  \* (SpecPair)
  ref,
  \* one busy wait of the ISR, poll by poll (SpecWait)
  wait_loop,
  \* main's error handler, and whether an error was raised that no hasErrors()
  \* has reported yet (SpecErrors)
  err_watch

isr_vars == <<request_buffer_has_data, request_buffer, rx_frame_buffers, head_frame_buffer,
              tail_frame_buffer, state, low_bits_counter_, bytes_read_, bits_read_in_byte_,
              byte_buffer_, byte_buffer_bit_mask_, error_flag>>

main_vars == <<init_pc, read_pc, buffer, ret>>

line_vars == <<sent, samples, low_run>>

\* What only SpecPair, SpecWait and SpecErrors move.
side_vars == <<ref, wait_loop, err_watch>>

vars == <<isr_vars, OCIE2A, main_vars, line_vars, side_vars>>

\* The decoder's variables as one record, the argument and result of the
\* operators that model the ISR's functions.
Decoder ==
  [ request_buffer_has_data |-> request_buffer_has_data,
    request_buffer |-> request_buffer,
    rx_frame_buffers |-> rx_frame_buffers,
    head_frame_buffer |-> head_frame_buffer,
    tail_frame_buffer |-> tail_frame_buffer,
    state |-> state,
    low_bits_counter_ |-> low_bits_counter_,
    bytes_read_ |-> bytes_read_,
    bits_read_in_byte_ |-> bits_read_in_byte_,
    byte_buffer_ |-> byte_buffer_,
    byte_buffer_bit_mask_ |-> byte_buffer_bit_mask_,
    error_flag |-> error_flag ]

\* ----- ISR RX ring buffers -----

incrementTailFrameBuffer(d) ==
  [d EXCEPT !.tail_frame_buffer =
     IF Inc8(d.tail_frame_buffer) >= kMaxFrameBuffers THEN 0 ELSE Inc8(d.tail_frame_buffer)]

incrementHeadFrameBuffer(d) ==
  [d EXCEPT !.head_frame_buffer =
     IF Inc8(d.head_frame_buffer) >= kMaxFrameBuffers THEN 0 ELSE Inc8(d.head_frame_buffer)]

\* ----- Error flag -----

setErrorFlag(d) == [d EXCEPT !.error_flag = TRUE]

\* ----- ISR utility functions -----

\* The busy waits poll RX until it has the awaited level or maxClockTicks
\* hardware clock ticks have passed; `at` is the elapsed tick count at which
\* the line takes that level.  TRUE when the level was seen, FALSE on timeout.
waitForRxLow(at, maxClockTicks) == at < maxClockTicks

waitForRxHigh(at, maxClockTicks) == at < maxClockTicks

\* maybeServiceRxRequest without the test of request_buffer_has_data.
maybeServiceRxRequest_ignores_flag(d) ==
  IF d.tail_frame_buffer # d.head_frame_buffer
  THEN [incrementTailFrameBuffer(
          [d EXCEPT !.request_buffer = d.rx_frame_buffers[d.tail_frame_buffer]])
        EXCEPT !.request_buffer_has_data = TRUE]
  ELSE d

\* maybeServiceRxRequest that hands off the newest completed frame, the one
\* before head, instead of the one at tail.
maybeServiceRxRequest_newest_first(d) ==
  IF ~d.request_buffer_has_data /\ d.tail_frame_buffer # d.head_frame_buffer
  THEN [incrementTailFrameBuffer(
          [d EXCEPT !.request_buffer =
             d.rx_frame_buffers[(d.head_frame_buffer + kMaxFrameBuffers - 1) % kMaxFrameBuffers]])
        EXCEPT !.request_buffer_has_data = TRUE]
  ELSE d

maybeServiceRxRequest(d) ==
  IF ~d.request_buffer_has_data /\ d.tail_frame_buffer # d.head_frame_buffer
  THEN [incrementTailFrameBuffer(
          [d EXCEPT !.request_buffer = d.rx_frame_buffers[d.tail_frame_buffer]])
        EXCEPT !.request_buffer_has_data = TRUE]
  ELSE d

\* ----- Detect-break state -----

\* StateDetectBreak::enter that also resets the error flag.
StateDetectBreak_enter_clears_error(d) ==
  [d EXCEPT !.state = "DETECT_BREAK", !.low_bits_counter_ = 0, !.error_flag = FALSE]

StateDetectBreak_enter(d) ==
  [d EXCEPT !.state = "DETECT_BREAK", !.low_bits_counter_ = 0]

\* ----- Read-data state -----

\* StateReadData::enter that leaves bytes_read_ as the previous frame left it.
StateReadData_enter_keeps_bytes_read(d, lowAt) ==
  [d EXCEPT !.state = "READ_DATA",
            !.bits_read_in_byte_ = 0,
            !.rx_frame_buffers[d.head_frame_buffer] = << >>]

\* StateReadData::enter that does not empty the slot at head.
StateReadData_enter_keeps_slot(d, lowAt) ==
  [d EXCEPT !.state = "READ_DATA",
            !.bytes_read_ = 0,
            !.bits_read_in_byte_ = 0]

\* lowAt: when the line drops to the first start bit; the result of the wait is
\* not used.
StateReadData_enter(d, lowAt) ==
  LET started == waitForRxLow(lowAt, kPostBreakTimeout)
  IN  [d EXCEPT !.state = "READ_DATA",
                !.bytes_read_ = 0,
                !.bits_read_in_byte_ = 0,
                !.rx_frame_buffers[d.head_frame_buffer] = << >>]

\* StateDetectBreak::handle_isr that does not reset the counter on a high sample.
StateDetectBreak_handle_isr_no_reset(d, is_rx_high, highAt, lowAt) ==
  IF is_rx_high
  THEN d
  ELSE IF Inc8(d.low_bits_counter_) < kBreakLowBits
  THEN [d EXCEPT !.low_bits_counter_ = Inc8(d.low_bits_counter_)]
  ELSE StateReadData_enter([d EXCEPT !.low_bits_counter_ = Inc8(d.low_bits_counter_)], lowAt)

\* highAt: when the line is released after the break; the result of the wait is
\* not used.
StateDetectBreak_handle_isr(d, is_rx_high, highAt, lowAt) ==
  IF is_rx_high
  THEN [d EXCEPT !.low_bits_counter_ = 0]
  ELSE IF Inc8(d.low_bits_counter_) < kBreakLowBits
  THEN [d EXCEPT !.low_bits_counter_ = Inc8(d.low_bits_counter_)]
  ELSE LET released == waitForRxHigh(highAt, kPostBreakTimeout)
       IN  StateReadData_enter([d EXCEPT !.low_bits_counter_ = Inc8(d.low_bits_counter_)], lowAt)

\* The start bit check that flags a high sample and then waits, still in
\* READ_DATA, for a start bit in a later tick.
HandleStartBit_retries(d, is_rx_high) ==
  IF is_rx_high
  THEN setErrorFlag(d)
  ELSE [d EXCEPT !.bits_read_in_byte_ = Inc8(d.bits_read_in_byte_),
                 !.byte_buffer_ = 0,
                 !.byte_buffer_bit_mask_ = 1]

\* The start bit, sampled at bit position 0.
HandleStartBit(d, is_rx_high) ==
  IF is_rx_high
  THEN StateDetectBreak_enter(setErrorFlag(d))
  ELSE [d EXCEPT !.bits_read_in_byte_ = Inc8(d.bits_read_in_byte_),
                 !.byte_buffer_ = 0,
                 !.byte_buffer_bit_mask_ = 1]

\* The data bit collected most significant first: the buffer is shifted and the
\* sample enters at bit 0.
HandleDataBit_msb_first(d, is_rx_high) ==
  [d EXCEPT !.byte_buffer_ = BitOr(Shl1(d.byte_buffer_), IF is_rx_high THEN 1 ELSE 0),
            !.byte_buffer_bit_mask_ = Shl1(d.byte_buffer_bit_mask_),
            !.bits_read_in_byte_ = Inc8(d.bits_read_in_byte_)]

\* One of the 8 data bits, least significant first.
HandleDataBit(d, is_rx_high) ==
  [d EXCEPT !.byte_buffer_ =
              IF is_rx_high THEN BitOr(d.byte_buffer_, d.byte_buffer_bit_mask_)
              ELSE d.byte_buffer_,
            !.byte_buffer_bit_mask_ = Shl1(d.byte_buffer_bit_mask_),
            !.bits_read_in_byte_ = Inc8(d.bits_read_in_byte_)]

\* The end of a frame with the length test off by one: 3 bytes pass.
HandleFrameEnd_min3(d) ==
  IF d.bytes_read_ < kMinFrameBytes - 1
  THEN StateDetectBreak_enter(setErrorFlag(d))
  ELSE LET h == incrementHeadFrameBuffer(d)
       IN  StateDetectBreak_enter(
             IF h.tail_frame_buffer = h.head_frame_buffer
             THEN incrementTailFrameBuffer(setErrorFlag(h))
             ELSE h)

\* The end of a frame that, on overrun, raises the error but leaves tail.
HandleFrameEnd_no_evict(d) ==
  IF d.bytes_read_ < kMinFrameBytes
  THEN StateDetectBreak_enter(setErrorFlag(d))
  ELSE LET h == incrementHeadFrameBuffer(d)
       IN  StateDetectBreak_enter(
             IF h.tail_frame_buffer = h.head_frame_buffer
             THEN setErrorFlag(h)
             ELSE h)

\* The frame ended: no start bit within the inter-byte time limit.
HandleFrameEnd(d) ==
  IF d.bytes_read_ < kMinFrameBytes
  THEN StateDetectBreak_enter(setErrorFlag(d))
  ELSE LET h == incrementHeadFrameBuffer(d)
       IN  StateDetectBreak_enter(
             IF h.tail_frame_buffer = h.head_frame_buffer
             THEN incrementTailFrameBuffer(setErrorFlag(h))
             ELSE h)

\* The capacity test off by one: > for >=.
HandleNextByte_off_by_one(d) ==
  IF Len(d.rx_frame_buffers[d.head_frame_buffer]) > kMaxBytes
  THEN StateDetectBreak_enter(setErrorFlag(d))
  ELSE d

\* A next byte starts: an error when the frame is already full.
HandleNextByte(d) ==
  IF Len(d.rx_frame_buffers[d.head_frame_buffer]) >= kMaxBytes
  THEN StateDetectBreak_enter(setErrorFlag(d))
  ELSE d

\* The stop bit: append the byte to the frame at head, then wait for the start
\* bit of a next byte.  lowAt: when the line drops again.
HandleStopBit(d, is_rx_high, lowAt) ==
  IF ~is_rx_high
  THEN StateDetectBreak_enter(setErrorFlag(d))
  ELSE LET a == [d EXCEPT !.rx_frame_buffers[d.head_frame_buffer] = Append(@, d.byte_buffer_),
                          !.bytes_read_ = Inc8(d.bytes_read_),
                          !.bits_read_in_byte_ = 0]
           has_more_bytes == waitForRxLow(lowAt, kClockTicksPerBit * kInterByteBits)
       IN  IF ~has_more_bytes THEN HandleFrameEnd(a) ELSE HandleNextByte(a)

StateReadData_handle_isr(d, is_rx_high, lowAt) ==
  IF d.bits_read_in_byte_ = 0 THEN HandleStartBit(d, is_rx_high)
  ELSE IF d.bits_read_in_byte_ <= 8 THEN HandleDataBit(d, is_rx_high)
  ELSE HandleStopBit(d, is_rx_high, lowAt)

\* ----- ISR handler -----

\* The ISR with the hand-off attempt left out of the runs that changed the
\* receiver's state (the runs that re-arm the timer by a busy wait).
TimerISR_skips_handoff_after_wait(d, is_rx_high, highAt, lowAt) ==
  LET r == CASE d.state = "DETECT_BREAK" -> StateDetectBreak_handle_isr(d, is_rx_high, highAt, lowAt)
             [] d.state = "READ_DATA" -> StateReadData_handle_isr(d, is_rx_high, lowAt)
             [] OTHER -> StateDetectBreak_enter(setErrorFlag(d))
  IN  IF r.state # d.state THEN r ELSE maybeServiceRxRequest(r)

\* The ISR that runs nothing, but for the hand-off attempt, while the error flag
\* is set.
TimerISR_halts_on_error(d, is_rx_high, highAt, lowAt) ==
  IF d.error_flag
  THEN maybeServiceRxRequest(d)
  ELSE maybeServiceRxRequest(
         CASE d.state = "DETECT_BREAK" -> StateDetectBreak_handle_isr(d, is_rx_high, highAt, lowAt)
           [] d.state = "READ_DATA" -> StateReadData_handle_isr(d, is_rx_high, lowAt)
           [] OTHER -> StateDetectBreak_enter(setErrorFlag(d)))

\* The ISR with the hand-off attempt made in READ_DATA only.
TimerISR_handoff_in_read_data_only(d, is_rx_high, highAt, lowAt) ==
  CASE d.state = "DETECT_BREAK" -> StateDetectBreak_handle_isr(d, is_rx_high, highAt, lowAt)
    [] d.state = "READ_DATA" -> maybeServiceRxRequest(StateReadData_handle_isr(d, is_rx_high, lowAt))
    [] OTHER -> StateDetectBreak_enter(setErrorFlag(d))

TimerISR(d, is_rx_high, highAt, lowAt) ==
  maybeServiceRxRequest(
    CASE d.state = "DETECT_BREAK" -> StateDetectBreak_handle_isr(d, is_rx_high, highAt, lowAt)
      [] d.state = "READ_DATA" -> StateReadData_handle_isr(d, is_rx_high, lowAt)
      [] OTHER -> StateDetectBreak_enter(setErrorFlag(d)))

\* ----- The ISR as a step -----

\* Timer 2 compare match A: one run of the ISR on the sample is_rx_high.
Tick(is_rx_high, highAt, lowAt) ==
  /\ OCIE2A
  /\ LET r == TimerISR(Decoder, is_rx_high, highAt, lowAt)
     IN  /\ request_buffer_has_data' = r.request_buffer_has_data
         /\ request_buffer' = r.request_buffer
         /\ rx_frame_buffers' = r.rx_frame_buffers
         /\ head_frame_buffer' = r.head_frame_buffer
         /\ tail_frame_buffer' = r.tail_frame_buffer
         /\ state' = r.state
         /\ low_bits_counter_' = r.low_bits_counter_
         /\ bytes_read_' = r.bytes_read_
         /\ bits_read_in_byte_' = r.bits_read_in_byte_
         /\ byte_buffer_' = r.byte_buffer_
         /\ byte_buffer_bit_mask_' = r.byte_buffer_bit_mask_
         /\ error_flag' = r.error_flag
         /\ sent' = IF r.head_frame_buffer # head_frame_buffer
                    THEN Append(sent, r.rx_frame_buffers[head_frame_buffer])
                    ELSE sent
  /\ samples' = IF state # "READ_DATA" THEN << >>
                ELSE IF bits_read_in_byte_ = 0 THEN << IF is_rx_high THEN 1 ELSE 0 >>
                ELSE Append(samples, IF is_rx_high THEN 1 ELSE 0)
  /\ low_run' = IF low_run >= 10 THEN low_run
                ELSE IF is_rx_high THEN 0 ELSE low_run + 1
  /\ UNCHANGED <<OCIE2A, main_vars>>

\* ----- The line -----

\* The ISR busy-waits in the tick that completes a break and in the tick that
\* samples a good stop bit; only there does the line's timing matter.
Waits(is_rx_high) ==
  \/ state = "DETECT_BREAK" /\ ~is_rx_high /\ Inc8(low_bits_counter_) >= kBreakLowBits
  \/ state = "READ_DATA" /\ bits_read_in_byte_ > 8 /\ is_rx_high

WaitChoices(is_rx_high) == IF Waits(is_rx_high) THEN WaitTicks ELSE {0}

\* The byte the line carries next: a frame's first byte numbers the frame (the
\* count of frames completed before it), every other byte is FillByte.
TxByte == IF bytes_read_ = 0 THEN Len(sent) ELSE FillByte

\* The data bits are those of TxByte; start bit, stop bit and every sample
\* outside a byte are free.
LineCarriesTxByte(is_rx_high) ==
  (state = "READ_DATA" /\ bits_read_in_byte_ \in 1 .. 8)
    => (is_rx_high <=> Bit(TxByte, bits_read_in_byte_ - 1) = 1)

\* The line completes at most `frames` frames.
LineCompletes(frames, is_rx_high, highAt, lowAt) ==
  \/ Len(sent) < frames
  \/ TimerISR(Decoder, is_rx_high, highAt, lowAt).head_frame_buffer = head_frame_buffer

\* Byte counts at which the line may fall silent in Spec: every count up to
\* kMinFrameBytes, and kMaxBytes.  (A frame may still be cut short at any byte
\* by a bad start or stop bit.)
FrameEnds == (1 .. kMinFrameBytes) \cup {kMaxBytes}

\* The line falls silent only after a byte count in FrameEnds.
LineEndsFrames(lowAt) ==
  (state = "READ_DATA" /\ bits_read_in_byte_ = 9
     /\ ~waitForRxLow(lowAt, kClockTicksPerBit * kInterByteBits))
    => bytes_read_ + 1 \in FrameEnds

\* Every frame that ends by timeout has kMinFrameBytes bytes.
LineFramesAreShort(lowAt) ==
  (state = "READ_DATA" /\ bits_read_in_byte_ = 9)
    => (waitForRxLow(lowAt, kClockTicksPerBit * kInterByteBits) <=> bytes_read_ + 1 < kMinFrameBytes)

\* Every byte is followed by silence.
LineFramesAreOneByte(lowAt) ==
  (state = "READ_DATA" /\ bits_read_in_byte_ = 9)
    => ~waitForRxLow(lowAt, kClockTicksPerBit * kInterByteBits)

\* ----- main -----

\* readNextFrame(), line 70: the test of the flag.
readNextFrame_test ==
  /\ init_pc = "done" /\ read_pc = "idle"
  /\ IF request_buffer_has_data
     THEN read_pc' = "copy" /\ ret' = ret
     ELSE read_pc' = "idle" /\ ret' = FALSE
  /\ UNCHANGED <<isr_vars, OCIE2A, init_pc, buffer, line_vars, side_vars>>

\* readNextFrame(), line 71: *buffer = request_buffer.
readNextFrame_copy ==
  /\ read_pc = "copy"
  /\ buffer' = request_buffer
  /\ read_pc' = "clear"
  /\ UNCHANGED <<isr_vars, OCIE2A, init_pc, ret, line_vars, side_vars>>

\* readNextFrame returning true without clearing the flag.
readNextFrame_clear_keeps_flag ==
  /\ read_pc = "clear"
  /\ read_pc' = "idle"
  /\ ret' = TRUE
  /\ UNCHANGED <<isr_vars, OCIE2A, init_pc, buffer, line_vars, side_vars>>

\* readNextFrame clearing the error flag together with the data flag.
readNextFrame_clear_also_errors ==
  /\ read_pc = "clear"
  /\ request_buffer_has_data' = FALSE
  /\ error_flag' = FALSE
  /\ read_pc' = "idle"
  /\ ret' = TRUE
  /\ UNCHANGED <<request_buffer, rx_frame_buffers, head_frame_buffer, tail_frame_buffer,
                 state, low_bits_counter_, bytes_read_, bits_read_in_byte_, byte_buffer_,
                 byte_buffer_bit_mask_, OCIE2A, init_pc, buffer, line_vars, side_vars>>

\* readNextFrame(), lines 72-73: clear the flag and return true.
readNextFrame_clear ==
  /\ read_pc = "clear"
  /\ request_buffer_has_data' = FALSE
  /\ read_pc' = "idle"
  /\ ret' = TRUE
  /\ UNCHANGED <<request_buffer, rx_frame_buffers, head_frame_buffer, tail_frame_buffer,
                 state, low_bits_counter_, bytes_read_, bits_read_in_byte_, byte_buffer_,
                 byte_buffer_bit_mask_, error_flag, OCIE2A, init_pc, buffer, line_vars, side_vars>>

hasErrors ==
  /\ init_pc = "done" /\ read_pc = "idle"
  /\ ret' = error_flag
  /\ UNCHANGED <<isr_vars, OCIE2A, init_pc, read_pc, buffer, line_vars, side_vars>>

clearErrors ==
  /\ init_pc = "done" /\ read_pc = "idle"
  /\ error_flag' = FALSE
  /\ UNCHANGED <<request_buffer_has_data, request_buffer, rx_frame_buffers, head_frame_buffer,
                 tail_frame_buffer, state, low_bits_counter_, bytes_read_, bits_read_in_byte_,
                 byte_buffer_, byte_buffer_bit_mask_, OCIE2A, main_vars, line_vars, side_vars>>

\* ----- init(), one statement per step -----

initBuffers ==
  /\ init_pc = "initBuffers"
  /\ head_frame_buffer' = 0
  /\ tail_frame_buffer' = 0
  /\ request_buffer_has_data' = FALSE
  /\ request_buffer' = << >>
  /\ init_pc' = "StateDetectBreak_enter"
  /\ UNCHANGED <<rx_frame_buffers, state, low_bits_counter_, bytes_read_, bits_read_in_byte_,
                 byte_buffer_, byte_buffer_bit_mask_, error_flag, OCIE2A, read_pc, buffer, ret,
                 line_vars, side_vars>>

init_StateDetectBreak_enter ==
  /\ init_pc = "StateDetectBreak_enter"
  /\ state' = StateDetectBreak_enter(Decoder).state
  /\ low_bits_counter_' = StateDetectBreak_enter(Decoder).low_bits_counter_
  /\ init_pc' = "initLinPins"
  /\ UNCHANGED <<request_buffer_has_data, request_buffer, rx_frame_buffers, head_frame_buffer,
                 tail_frame_buffer, bytes_read_, bits_read_in_byte_, byte_buffer_,
                 byte_buffer_bit_mask_, error_flag, OCIE2A, read_pc, buffer, ret, line_vars, side_vars>>

\* The pins are no part of the decoder's state.
initLinPins ==
  /\ init_pc = "initLinPins"
  /\ init_pc' = "initTimer"
  /\ UNCHANGED <<isr_vars, OCIE2A, read_pc, buffer, ret, line_vars, side_vars>>

\* TIMSK2 = ... H(OCIE2A) ...: from here on the compare match runs the ISR.
initTimer ==
  /\ init_pc = "initTimer"
  /\ OCIE2A' = TRUE
  /\ init_pc' = "clearErrors"
  /\ UNCHANGED <<isr_vars, read_pc, buffer, ret, line_vars, side_vars>>

init_clearErrors ==
  /\ init_pc = "clearErrors"
  /\ error_flag' = FALSE
  /\ init_pc' = "done"
  /\ UNCHANGED <<request_buffer_has_data, request_buffer, rx_frame_buffers, head_frame_buffer,
                 tail_frame_buffer, state, low_bits_counter_, bytes_read_, bits_read_in_byte_,
                 byte_buffer_, byte_buffer_bit_mask_, OCIE2A, read_pc, buffer, ret, line_vars, side_vars>>

\* ----- Specifications -----

\* The statics as the C++ runtime zero-initializes them, before init().
Statics ==
  /\ request_buffer_has_data = FALSE
  /\ request_buffer = << >>
  /\ rx_frame_buffers = [i \in 0 .. kMaxFrameBuffers - 1 |-> << >>]
  /\ head_frame_buffer = 0
  /\ tail_frame_buffer = 0
  /\ state = "DETECT_BREAK"
  /\ low_bits_counter_ = 0
  /\ bytes_read_ = 0
  /\ bits_read_in_byte_ = 0
  /\ byte_buffer_ = 0
  /\ byte_buffer_bit_mask_ = 0
  /\ error_flag = FALSE
  /\ read_pc = "idle"
  /\ buffer = << >>
  /\ ret = FALSE
  /\ sent = << >>
  /\ samples = << >>
  /\ low_run = 0
  /\ ref = Decoder
  /\ wait_loop = [pc |-> "idle"]
  /\ err_watch = [pc |-> "poll", unseen |-> FALSE]

\* Before init().
InitStart == Statics /\ OCIE2A = FALSE /\ init_pc = "initBuffers"

\* After init() has returned, no compare match having occurred during it.
Init == Statics /\ OCIE2A = TRUE /\ init_pc = "done"

Main == readNextFrame_test \/ readNextFrame_copy \/ readNextFrame_clear \/ hasErrors \/ clearErrors

\* Spec: frames of any length, numbered by their first byte, at most MaxFrames
\* of them, and main calling at any time.
TickFrames ==
  \E is_rx_high \in BOOLEAN :
  \E highAt \in WaitChoices(is_rx_high), lowAt \in WaitChoices(is_rx_high) :
    /\ LineCarriesTxByte(is_rx_high)
    /\ LineEndsFrames(lowAt)
    /\ LineCompletes(MaxFrames, is_rx_high, highAt, lowAt)
    /\ Tick(is_rx_high, highAt, lowAt)
    /\ UNCHANGED side_vars

Next == TickFrames \/ Main

Spec == Init /\ [][Next]_vars

\* SpecByte: one-byte frames of every byte value, and no call of main.
TickByte ==
  \E is_rx_high \in BOOLEAN :
  \E highAt \in WaitChoices(is_rx_high), lowAt \in WaitChoices(is_rx_high) :
    /\ LineFramesAreOneByte(lowAt)
    /\ Tick(is_rx_high, highAt, lowAt)
    /\ UNCHANGED side_vars

NextByte == TickByte

SpecByte == Init /\ [][NextByte]_vars

\* SpecOverrun: frames of kMinFrameBytes bytes, numbered by their first byte, at
\* most MaxFramesOverrun of them, and main calling at any time.
TickOverrun ==
  \E is_rx_high \in BOOLEAN :
  \E highAt \in WaitChoices(is_rx_high), lowAt \in WaitChoices(is_rx_high) :
    /\ LineCarriesTxByte(is_rx_high)
    /\ LineFramesAreShort(lowAt)
    /\ LineCompletes(MaxFramesOverrun, is_rx_high, highAt, lowAt)
    /\ Tick(is_rx_high, highAt, lowAt)
    /\ UNCHANGED side_vars

NextOverrun == TickOverrun \/ Main

SpecOverrun == Init /\ [][NextOverrun]_vars

\* SpecPair: the frames of Spec, at most MaxFramesPair of them, and beside the
\* decoder a second one, ref, that runs the ISR on the same samples and waits
\* while main never calls it.
TickPair ==
  \E is_rx_high \in BOOLEAN :
  \E highAt \in WaitChoices(is_rx_high), lowAt \in WaitChoices(is_rx_high) :
    /\ LineCarriesTxByte(is_rx_high)
    /\ LineEndsFrames(lowAt)
    /\ LineCompletes(MaxFramesPair, is_rx_high, highAt, lowAt)
    /\ Tick(is_rx_high, highAt, lowAt)
    /\ ref' = TimerISR(ref, is_rx_high, highAt, lowAt)
    /\ UNCHANGED <<wait_loop, err_watch>>

NextPair == TickPair \/ Main

SpecPair == Init /\ [][NextPair]_vars

\* SpecWait: one call of waitForRxHigh or waitForRxLow, iteration by iteration,
\* against a line that changes at any time and a hardware clock that advances
\* at most once per iteration of the loop (an iteration is a few CPU cycles, a
\* clock tick is kClockTicksPerBit-th of a bit time).

\* The three calls: waitForRxHigh(255), waitForRxLow(255), waitForRxLow(4 bits).
WaitCalls ==
  { <<TRUE, kPostBreakTimeout>>, <<FALSE, kPostBreakTimeout>>,
    <<FALSE, kClockTicksPerBit * kInterByteBits>> }

\* Readings of the clock at the call: far from the overflow, such that the
\* timeout of the shortest wait falls on the overflow, and just before it.
ClockStarts == {0, kClockModulus - kClockTicksPerBit * kInterByteBits, kClockModulus - 1}

\* clock_diff computed in plain integers, without the wrap of uint16.
ClockDiff_no_wrap(now, base_clock) == now - base_clock

\* clock_diff = hardware_ticks_mod_16_bit() - base_clock, in uint16.
ClockDiff(now, base_clock) == (now - base_clock) % kClockModulus

\* const uint16 base_clock = clock::hardware_ticks_mod_16_bit();
wait_call ==
  /\ wait_loop.pc = "idle"
  /\ \E call \in WaitCalls, c \in ClockStarts, level \in BOOLEAN :
       wait_loop' = [pc |-> "poll", for_high |-> call[1], maxClockTicks |-> call[2],
                     base_clock |-> c, clock |-> c, rx_high |-> level,
                     elapsed |-> 0, ticked |-> FALSE, result |-> FALSE]
  /\ UNCHANGED <<isr_vars, OCIE2A, main_vars, line_vars, ref, err_watch>>

\* resetTimer(); if the line is at the awaited level, return true.
wait_poll ==
  /\ wait_loop.pc = "poll"
  /\ wait_loop' = IF wait_loop.rx_high = wait_loop.for_high
                  THEN [wait_loop EXCEPT !.pc = "done", !.result = TRUE]
                  ELSE [wait_loop EXCEPT !.pc = "diff"]
  /\ UNCHANGED <<isr_vars, OCIE2A, main_vars, line_vars, ref, err_watch>>

\* clock_diff = now - base_clock; if (clock_diff >= maxClockTicks) return false.
wait_diff ==
  /\ wait_loop.pc = "diff"
  /\ wait_loop' = IF ClockDiff(wait_loop.clock, wait_loop.base_clock) >= wait_loop.maxClockTicks
                  THEN [wait_loop EXCEPT !.pc = "done", !.result = FALSE]
                  ELSE [wait_loop EXCEPT !.pc = "poll", !.ticked = FALSE]
  /\ UNCHANGED <<isr_vars, OCIE2A, main_vars, line_vars, ref, err_watch>>

\* The hardware clock advances by one tick.
ClockAdvances ==
  /\ wait_loop.pc \in {"poll", "diff"}
  /\ ~wait_loop.ticked
  /\ wait_loop.elapsed < MaxElapsed
  /\ wait_loop' = [wait_loop EXCEPT !.clock = (wait_loop.clock + 1) % kClockModulus,
                                    !.elapsed = wait_loop.elapsed + 1,
                                    !.ticked = TRUE]
  /\ UNCHANGED <<isr_vars, OCIE2A, main_vars, line_vars, ref, err_watch>>

\* The line changes level.
LineChanges ==
  /\ wait_loop.pc \in {"poll", "diff"}
  /\ wait_loop' = [wait_loop EXCEPT !.rx_high = ~wait_loop.rx_high]
  /\ UNCHANGED <<isr_vars, OCIE2A, main_vars, line_vars, ref, err_watch>>

WaitSteps == wait_call \/ wait_poll \/ wait_diff

NextWait == WaitSteps \/ ClockAdvances \/ LineChanges

\* The CPU keeps executing the loop and the hardware clock keeps advancing.
SpecWait == Init /\ [][NextWait]_vars /\ WF_vars(WaitSteps) /\ WF_vars(ClockAdvances)

\* SpecErrors: the line of SpecByte, and main running its error handler,
\* if (hasErrors()) clearErrors(), over and over.  err_watch.unseen: the ISR has
\* called setErrorFlag() since the last hasErrors() that returned true.
TickErrors ==
  \E is_rx_high \in BOOLEAN :
  \E highAt \in WaitChoices(is_rx_high), lowAt \in WaitChoices(is_rx_high) :
    /\ LineFramesAreOneByte(lowAt)
    /\ Tick(is_rx_high, highAt, lowAt)
    /\ err_watch' =
         [err_watch EXCEPT !.unseen =
            @ \/ TimerISR([Decoder EXCEPT !.error_flag = FALSE], is_rx_high, highAt, lowAt).error_flag]
    /\ UNCHANGED <<ref, wait_loop>>

\* hasErrors(), called by the handler.
watch_hasErrors ==
  /\ init_pc = "done"
  /\ err_watch.pc = "poll"
  /\ ret' = error_flag
  /\ err_watch' = IF error_flag THEN [pc |-> "clear", unseen |-> FALSE] ELSE err_watch
  /\ UNCHANGED <<isr_vars, OCIE2A, init_pc, read_pc, buffer, line_vars, ref, wait_loop>>

\* clearErrors(), called by the handler after hasErrors() returned true.
watch_clearErrors ==
  /\ init_pc = "done"
  /\ err_watch.pc = "clear"
  /\ error_flag' = FALSE
  /\ err_watch' = [err_watch EXCEPT !.pc = "poll"]
  /\ UNCHANGED <<request_buffer_has_data, request_buffer, rx_frame_buffers, head_frame_buffer,
                 tail_frame_buffer, state, low_bits_counter_, bytes_read_, bits_read_in_byte_,
                 byte_buffer_, byte_buffer_bit_mask_, OCIE2A, main_vars, line_vars, ref, wait_loop>>

NextErrors == TickErrors \/ watch_hasErrors \/ watch_clearErrors

SpecErrors == Init /\ [][NextErrors]_vars

\* SpecLive: the frames of SpecOverrun; after the MaxFramesLive-th of them the
\* line stays idle (high).  The timer keeps interrupting and main keeps calling
\* readNextFrame, and keeps running a call it has started.
LineIdlesAfter(frames, is_rx_high) == Len(sent) >= frames => is_rx_high

TickLive ==
  \E is_rx_high \in BOOLEAN :
  \E highAt \in WaitChoices(is_rx_high), lowAt \in WaitChoices(is_rx_high) :
    /\ LineCarriesTxByte(is_rx_high)
    /\ LineFramesAreShort(lowAt)
    /\ LineIdlesAfter(MaxFramesLive, is_rx_high)
    /\ Tick(is_rx_high, highAt, lowAt)
    /\ UNCHANGED side_vars

readNextFrame == readNextFrame_test \/ readNextFrame_copy \/ readNextFrame_clear

NextLive == TickLive \/ Main

SpecLive == Init /\ [][NextLive]_vars /\ WF_vars(TickLive) /\ WF_vars(readNextFrame)

\* SpecInit: init() from its first statement, the ISR running as soon as the
\* compare-match interrupt is enabled, on the line of SpecByte.
InitSteps == initBuffers \/ init_StateDetectBreak_enter \/ initLinPins \/ initTimer \/ init_clearErrors

NextInit == InitSteps \/ TickByte

SpecInit == InitStart /\ [][NextInit]_vars

\* ----- Vocabulary of the properties -----

Range(f) == {f[i] : i \in 1 .. Len(f)}

\* The number the line gave a frame: its first byte; -1 for the empty buffer.
FrameId(f) == IF f = << >> THEN -1 ELSE f[1]

\* The completed frames main has not taken yet, oldest first: the one in
\* request_buffer, then those of the ring from tail up to head.
UnreadFrames ==
  (IF request_buffer_has_data THEN <<request_buffer>> ELSE << >>)
    \o [i \in 1 .. ((head_frame_buffer - tail_frame_buffer) % kMaxFrameBuffers) |->
          rx_frame_buffers[(tail_frame_buffer + i - 1) % kMaxFrameBuffers]]

\* The 10 samples of byte v on the line: start bit low, 8 data bits least
\* significant first, stop bit high.
Encode(v) == [i \in 1 .. 10 |-> IF i = 1 THEN 0 ELSE IF i = 10 THEN 1 ELSE Bit(v, i - 2)]

\* The value of the data bits among the samples ss of one byte.
DataValue(ss) ==
  ss[2] + 2 * ss[3] + 4 * ss[4] + 8 * ss[5] + 16 * ss[6] + 32 * ss[7] + 64 * ss[8] + 128 * ss[9]

\* A run of the ISR on any sample.
IsrStep == \E is_rx_high \in BOOLEAN, highAt \in WaitTicks, lowAt \in WaitTicks :
             Tick(is_rx_high, highAt, lowAt)

\* A run of the ISR that samples a good stop bit and then sees no start bit
\* within the inter-byte time limit: the frame ends.
FrameEndsStep ==
  /\ state = "READ_DATA" /\ bits_read_in_byte_ = 9
  /\ \E highAt \in WaitTicks, lowAt \in WaitTicks :
       /\ lowAt >= 4 * kClockTicksPerBit
       /\ Tick(TRUE, highAt, lowAt)

\* A run of the ISR that samples a good stop bit and then sees the line drop
\* within the inter-byte time limit: a next byte starts.
NextByteStep ==
  /\ state = "READ_DATA" /\ bits_read_in_byte_ = 9
  /\ \E highAt \in WaitTicks, lowAt \in WaitTicks :
       /\ lowAt < 4 * kClockTicksPerBit
       /\ Tick(TRUE, highAt, lowAt)

\* ----- C1 -----

\* C1: as long as the tick samples have held no run of 10 consecutive low
\* samples, the receiver is in DETECT_BREAK, head_frame_buffer has not advanced,
\* no frame has been completed or handed off, and readNextFrame has not returned
\* true (it has copied nothing and is not past its test).
C1_NoBreakNoFrame ==
  low_run < 10 =>
    /\ state = "DETECT_BREAK"
    /\ head_frame_buffer = 0
    /\ sent = << >>
    /\ ~request_buffer_has_data
    /\ read_pc = "idle"
    /\ buffer = << >>

\* Nine low samples in a row, and still detecting.
C1_Witness == low_run = 9 /\ low_bits_counter_ = 9 /\ state = "DETECT_BREAK" /\ ~ret

\* ----- C2 -----

\* C2: whenever the ISR has sampled, from bit position 0, a low start bit and 8
\* data bits and now samples a high stop bit, that tick appends to the frame at
\* head exactly the byte whose bits, least significant first, are the 8 data
\* samples; the 9 ticks before it append nothing.
C2_ByteDecoded ==
  [][ /\ (state = "READ_DATA" /\ bits_read_in_byte_ = 9 /\ Len(samples') = 10
            /\ samples' = Encode(DataValue(samples')))
         => rx_frame_buffers'[head_frame_buffer]
              = Append(rx_frame_buffers[head_frame_buffer], DataValue(samples'))
      /\ (state = "READ_DATA" /\ bits_read_in_byte_ < 9)
         => rx_frame_buffers' = rx_frame_buffers
    ]_vars

\* The samples 0,1,0,1,0,0,1,0,1,1 have stored 0xA5.
C2_Witness ==
  /\ samples = <<0, 1, 0, 1, 0, 0, 1, 0, 1, 1>>
  /\ rx_frame_buffers[head_frame_buffer] = <<165>>
  /\ bytes_read_ = 1

\* ----- C3 -----

\* C3: a tick that ends a frame of fewer than 4 bytes leaves head_frame_buffer
\* where it was, completes no frame, sets the error flag and leaves the receiver
\* in DETECT_BREAK; and every frame readNextFrame copies out is a completed
\* frame and has at least 4 bytes.
C3_ShortFrameDiscarded ==
  [][ /\ (FrameEndsStep /\ bytes_read_ + 1 < 4)
         => /\ head_frame_buffer' = head_frame_buffer
            /\ sent' = sent
            /\ error_flag'
            /\ state' = "DETECT_BREAK"
      /\ readNextFrame_copy => (buffer' \in Range(sent) /\ Len(buffer') >= 4)
    ]_vars

\* A frame of 3 bytes has ended: it lies at head, discarded, and the flag is set.
C3_Witness ==
  /\ state = "DETECT_BREAK" /\ bytes_read_ = 3
  /\ Len(rx_frame_buffers[head_frame_buffer]) = 3
  /\ error_flag
  /\ sent = << >> /\ head_frame_buffer = 0

\* ----- C4 -----

\* C4: a tick that ends a frame of at least 4 bytes advances head_frame_buffer
\* by one and completes the frame received (the bytes at head and the byte just
\* decoded); each frame readNextFrame copies out is the completed frame that
\* follows the one it copied before, so none is returned twice; and once the
\* newest completed frame has been returned, a call returns false.
C4_FrameReturnedOnce ==
  [][ /\ (FrameEndsStep /\ bytes_read_ + 1 >= 4)
         => /\ head_frame_buffer' = (head_frame_buffer + 1) % 8
            /\ sent' = Append(sent, Append(rx_frame_buffers[head_frame_buffer], byte_buffer_))
            /\ Len(sent'[Len(sent')]) = bytes_read_ + 1
      /\ readNextFrame_copy
         => /\ FrameId(buffer') = FrameId(buffer) + 1
            /\ buffer' = sent[FrameId(buffer') + 1]
      /\ (readNextFrame_test /\ FrameId(buffer) = Len(sent) - 1)
         => (ret' = FALSE /\ read_pc' = "idle")
    ]_vars

\* The one completed frame has been returned and the slot is empty again.
C4_Witness ==
  /\ Len(sent) = 1 /\ buffer = sent[1]
  /\ read_pc = "idle" /\ ret
  /\ ~request_buffer_has_data
  /\ head_frame_buffer = tail_frame_buffer

\* ----- C5 -----

\* The first bytes of the frames fs increase strictly.
IdsIncrease(fs) == \A i \in 1 .. Len(fs) - 1 : FrameId(fs[i]) < FrameId(fs[i + 1])

\* C5: a tick that completes a frame while 8 completed frames are unread (one in
\* request_buffer, 7 in the ring) sets the error flag, advances tail_frame_buffer
\* by one and drops exactly the oldest frame of the ring: the unread frames are
\* then the one in request_buffer, the other 6 of the ring and the new frame.
\* While main has taken no frame, a tick that completes one of the first 8
\* frames leaves the error flag as it was and drops nothing.  The unread frames
\* are always in completion order, and readNextFrame copies out the oldest.
C5_OverrunEvictsOldest ==
  [][ /\ (FrameEndsStep /\ request_buffer_has_data /\ Len(UnreadFrames) = 8)
         => /\ error_flag'
            /\ tail_frame_buffer' = (tail_frame_buffer + 1) % 8
            /\ UnreadFrames' = <<UnreadFrames[1]>> \o SubSeq(UnreadFrames, 3, 8)
                                 \o <<Append(rx_frame_buffers[head_frame_buffer], byte_buffer_)>>
      /\ (FrameEndsStep /\ buffer = << >> /\ read_pc = "idle" /\ Len(sent) < 8)
         => /\ error_flag' = error_flag
            /\ UnreadFrames' = Append(UnreadFrames,
                                      Append(rx_frame_buffers[head_frame_buffer], byte_buffer_))
      /\ IdsIncrease(UnreadFrames')
      /\ readNextFrame_copy => (buffer' = UnreadFrames[1] /\ FrameId(buffer') > FrameId(buffer))
    ]_vars

\* Main took nothing while 9 frames completed: frame 1 is gone, frames 0 and
\* 2 to 8 are unread, in order.
C5_Witness ==
  /\ Len(sent) = 9
  /\ buffer = << >> /\ read_pc = "idle"
  /\ error_flag
  /\ head_frame_buffer = 1 /\ tail_frame_buffer = 2
  /\ [i \in 1 .. Len(UnreadFrames) |-> FrameId(UnreadFrames[i])] = <<0, 2, 3, 4, 5, 6, 7, 8>>

\* ----- C6 -----

\* C6: a tick that appends the 11th byte of a frame and then sees the line drop
\* for a next byte sets the error flag, leaves head_frame_buffer where it was,
\* completes no frame and leaves the receiver in DETECT_BREAK; and no frame
\* readNextFrame copies out has more than 11 bytes.
C6_TwelfthByteRejected ==
  [][ /\ (NextByteStep /\ Len(rx_frame_buffers[head_frame_buffer]) = 10)
         => /\ error_flag'
            /\ head_frame_buffer' = head_frame_buffer
            /\ sent' = sent
            /\ state' = "DETECT_BREAK"
      /\ readNextFrame_copy => Len(buffer') <= 11
      /\ \A i \in 0 .. 7 : Len(rx_frame_buffers'[i]) <= 11
    ]_vars

\* A frame of 11 bytes was followed by a start bit: it lies at head, discarded.
C6_Witness ==
  /\ state = "DETECT_BREAK" /\ bytes_read_ = 11
  /\ Len(rx_frame_buffers[head_frame_buffer]) = 11
  /\ error_flag
  /\ rx_frame_buffers[head_frame_buffer] \notin Range(sent)

\* ----- C7 -----

\* C7: a set error flag stays set over every step but clearErrors(); hasErrors()
\* returns the flag; clearErrors() leaves it clear, so that a hasErrors() next
\* returns false; and every tick that leaves READ_DATA without completing a
\* frame (a bad start or stop bit, a short frame, a 12th byte) sets it, whatever
\* was cleared before.
C7_ErrorFlagSticky ==
  [][ /\ (error_flag /\ ~clearErrors) => error_flag'
      /\ hasErrors => ret' = error_flag
      /\ clearErrors => ~error_flag'
      /\ (~error_flag /\ hasErrors) => ~ret'
      /\ (state = "READ_DATA" /\ state' = "DETECT_BREAK" /\ sent' = sent /\ IsrStep)
         => error_flag'
    ]_vars

\* No readNextFrame call has returned true, so it is hasErrors() that returned
\* true, and the ISR is two bytes into a later frame with the flag still set.
C7_Witness ==
  /\ error_flag /\ ret
  /\ read_pc = "idle" /\ buffer = << >>
  /\ state = "READ_DATA" /\ bytes_read_ = 2

\* ----- C8 -----

\* C8: a readNextFrame call that finds the slot not ready returns false at once
\* and changes neither the caller's buffer, request_buffer nor the flag; one
\* that finds it ready returns true with the caller's buffer holding
\* request_buffer's frame and the flag cleared; no step of it changes the error
\* flag or anything the ISR owns.
C8_ReadNextFrame ==
  [][ /\ (readNextFrame_test /\ ~request_buffer_has_data)
         => /\ ret' = FALSE /\ read_pc' = "idle"
            /\ buffer' = buffer
            /\ request_buffer' = request_buffer
            /\ request_buffer_has_data' = request_buffer_has_data
      /\ (readNextFrame_test /\ request_buffer_has_data) => read_pc' = "copy"
      /\ readNextFrame_clear
         => /\ ret' = TRUE /\ read_pc' = "idle"
            /\ buffer' = request_buffer'
            /\ ~request_buffer_has_data'
      /\ (readNextFrame_test \/ readNextFrame_copy \/ readNextFrame_clear)
         => /\ error_flag' = error_flag
            /\ request_buffer' = request_buffer
            /\ <<rx_frame_buffers, head_frame_buffer, tail_frame_buffer, state>>'
                 = <<rx_frame_buffers, head_frame_buffer, tail_frame_buffer, state>>
      /\ read_pc' \in {"copy", "clear"} => request_buffer_has_data'
    ]_vars

\* A call has returned true with the error flag set before and after it.
C8_Witness ==
  /\ read_pc = "idle" /\ ret
  /\ buffer = request_buffer /\ buffer # << >>
  /\ ~request_buffer_has_data
  /\ error_flag

\* ----- C9 -----

\* C9: no step writes request_buffer while request_buffer_has_data is true; the
\* step that sets the flag leaves in request_buffer, whole, the oldest frame of
\* the ring, a completed frame; only readNextFrame's last statement clears the
\* flag; and the frame main copies out is a completed frame, still the one in
\* request_buffer, however the ISR ran between the statements of the call.
C9_HandOff ==
  [][ /\ request_buffer_has_data => request_buffer' = request_buffer
      /\ (~request_buffer_has_data /\ request_buffer_has_data')
         => /\ IsrStep
            /\ request_buffer' \in Range(sent')
            /\ tail_frame_buffer' # tail_frame_buffer
      /\ (request_buffer_has_data /\ ~request_buffer_has_data') => readNextFrame_clear
      /\ readNextFrame_copy => buffer' \in Range(sent)
      /\ read_pc' = "clear" => (buffer' = request_buffer' /\ request_buffer_has_data')
    ]_vars

\* The ISR completed a second frame between the copy and the clear of a call.
C9_Witness ==
  /\ read_pc = "clear"
  /\ Len(sent) = 2
  /\ buffer = sent[1] /\ request_buffer = sent[1]
  /\ rx_frame_buffers[tail_frame_buffer] = sent[2]
  /\ head_frame_buffer # tail_frame_buffer

\* ----- C10 -----

\* C10: init() has run all of its statements before the compare-match interrupt
\* is enabled.
C10_InitBeforeArm == OCIE2A => init_pc = "done"

\* ----- C11 -----

\* The tick that completes a break: the low sample that brings the counter (the
\* run of low samples) to 10, after which the line is seen high and then low
\* within the time limits of the two waits.
BreakEndsStep ==
  /\ state = "DETECT_BREAK"
  /\ low_bits_counter_ = kBreakLowBits - 1 \/ low_run = kBreakLowBits - 1
  /\ \E highAt \in WaitTicks, lowAt \in WaitTicks :
       /\ highAt < kPostBreakTimeout /\ lowAt < kPostBreakTimeout
       /\ Tick(FALSE, highAt, lowAt)

\* C11: the tick of DETECT_BREAK that samples the 10th consecutive low, with the
\* line then going high and low, ends in READ_DATA with bytes_read_ 0, bit
\* position 0 and an empty in-progress slot; of the ticks that follow, the first
\* nine samples that start with a low one advance the bit position by one each
\* and append nothing, and the tenth, a high one, makes them one byte: ten
\* samples, one start bit, eight data bits, one stop bit.
C11_BreakThenByte ==
  [][ /\ BreakEndsStep
         => /\ state' = "READ_DATA"
            /\ bytes_read_' = 0
            /\ bits_read_in_byte_' = 0
            /\ head_frame_buffer' = head_frame_buffer
            /\ rx_frame_buffers'[head_frame_buffer'] = << >>
      /\ (state = "READ_DATA" /\ bytes_read_ = 0 /\ IsrStep /\ samples'[1] = 0)
         => /\ Len(samples') < 10
               => /\ state' = "READ_DATA"
                  /\ bits_read_in_byte_' = Len(samples')
                  /\ bytes_read_' = 0
                  /\ rx_frame_buffers'[head_frame_buffer'] = << >>
            /\ (Len(samples') = 10 /\ samples'[10] = 1)
               => /\ bytes_read_' = 1
                  /\ rx_frame_buffers'[head_frame_buffer'] = <<DataValue(samples')>>
            /\ Len(samples') <= 10
    ]_vars

\* A second break has been completed, after a frame of one byte, and nine of the
\* ten samples of the byte that follows it are in.
C11_Witness ==
  /\ state = "READ_DATA"
  /\ low_bits_counter_ = kBreakLowBits
  /\ error_flag
  /\ bytes_read_ = 0
  /\ bits_read_in_byte_ = 9
  /\ Len(samples) = 9
  /\ rx_frame_buffers[head_frame_buffer] = << >>

\* ----- C12 -----

\* A run of the ISR in READ_DATA on a high sample at bit position 0 or on a low
\* sample at bit position 9: a framing error.
FramingErrorStep ==
  /\ state = "READ_DATA"
  /\ \/ bits_read_in_byte_ = 0 /\ Tick(TRUE, 0, 0)
     \/ bits_read_in_byte_ = 9 /\ Tick(FALSE, 0, 0)

\* C12: a tick of READ_DATA that samples a high start bit or a low stop bit ends
\* with the error flag set, in DETECT_BREAK and with the low counter at 0; it
\* appends no byte, leaves head_frame_buffer where it was and completes no frame;
\* and the frame it aborted is never delivered: no tick that leaves READ_DATA
\* without advancing head adds a frame to those main has still to get, and
\* whatever readNextFrame copies out is a frame that was completed.
C12_FramingErrorAborts ==
  [][ /\ FramingErrorStep
         => /\ error_flag'
            /\ state' = "DETECT_BREAK"
            /\ low_bits_counter_' = 0
            /\ rx_frame_buffers' = rx_frame_buffers
            /\ bytes_read_' = bytes_read_
            /\ head_frame_buffer' = head_frame_buffer
            /\ UnreadFrames' = UnreadFrames
            /\ sent' = sent
      /\ (state = "READ_DATA" /\ state' = "DETECT_BREAK" /\ head_frame_buffer' = head_frame_buffer)
         => (error_flag' /\ UnreadFrames' = UnreadFrames)
      /\ readNextFrame_copy => buffer' \in Range(sent)
    ]_vars

\* A frame of two bytes was aborted by a low stop bit in its third byte (the bit
\* position is still 9); the frame completed before it is the only one main got.
C12_Witness ==
  /\ state = "DETECT_BREAK"
  /\ low_bits_counter_ = 0
  /\ bits_read_in_byte_ = 9
  /\ bytes_read_ = 2
  /\ error_flag
  /\ Len(sent) = 1
  /\ buffer = sent[1]
  /\ head_frame_buffer = 1

\* ----- C13 -----

\* The slot before i in the ring.
PrevSlot(i) == (i + kMaxFrameBuffers - 1) % kMaxFrameBuffers

\* C13: no run of the ISR ends with request_buffer free and the ring not empty;
\* the step that sets request_buffer_has_data copied the slot tail pointed at
\* when the hand-off was attempted (the oldest of the ring, after the eviction
\* when the run overran the ring), advanced tail by one slot past it, modulo 8,
\* and did not copy the slot at head, the in-progress one.
C13_HandOffEveryTick ==
  [][ /\ ~(request_buffer_has_data' \/ head_frame_buffer' = tail_frame_buffer') => ~IsrStep
      /\ (~request_buffer_has_data /\ request_buffer_has_data')
         => /\ request_buffer' = rx_frame_buffers'[PrevSlot(tail_frame_buffer')]
            /\ PrevSlot(tail_frame_buffer') # head_frame_buffer'
            /\ IF head_frame_buffer' # head_frame_buffer
                  /\ (head_frame_buffer + 1) % kMaxFrameBuffers = tail_frame_buffer
               THEN tail_frame_buffer' = (tail_frame_buffer + 2) % kMaxFrameBuffers
               ELSE /\ tail_frame_buffer' = (tail_frame_buffer + 1) % kMaxFrameBuffers
                    /\ request_buffer' = rx_frame_buffers'[tail_frame_buffer]
            /\ request_buffer' = UnreadFrames'[1]
            /\ IdsIncrease(UnreadFrames')
    ]_vars

\* The hand-off that took tail from slot 7 round to slot 0: the frame of slot 7
\* is in request_buffer and the next one waits in slot 0.
C13_Witness ==
  /\ request_buffer_has_data
  /\ tail_frame_buffer = 0
  /\ head_frame_buffer = 1
  /\ request_buffer = rx_frame_buffers[kMaxFrameBuffers - 1]
  /\ FrameId(request_buffer) = kMaxFrameBuffers - 1
  /\ FrameId(rx_frame_buffers[0]) = kMaxFrameBuffers

\* ----- C14 -----

\* What the claim lists of a decoder d: the receiver's state, the break counter,
\* the byte and bit counters (with the byte being assembled), head_frame_buffer
\* and the contents of the in-progress slot.
ProducerView(d) ==
  <<d.state, d.low_bits_counter_, d.bytes_read_, d.bits_read_in_byte_, d.byte_buffer_,
    d.byte_buffer_bit_mask_, d.head_frame_buffer, d.rx_frame_buffers[d.head_frame_buffer]>>

\* C14: after every tick, and after every statement of main, the decoder main
\* calls at will and the decoder main never calls, run on the same samples,
\* agree on the receiver's state, the counters, head_frame_buffer and the
\* in-progress slot; so do any two runs that differ only in main's calls.
C14_ProducerIgnoresConsumer == ProducerView(Decoder) = ProducerView(ref)

\* Main took the frame and cleared the error flag; in the run without main the
\* frame is still in request_buffer and the flag still set; both receivers are
\* in the middle of the same byte.
C14_Witness ==
  /\ buffer # << >> /\ read_pc = "idle"
  /\ ~request_buffer_has_data /\ ref.request_buffer_has_data
  /\ ~error_flag /\ ref.error_flag
  /\ state = "READ_DATA" /\ bits_read_in_byte_ = 5

\* ----- C15 -----

\* C15: every call of waitForRxHigh(255), waitForRxLow(255) and waitForRxLow(4
\* bit times) returns, whatever the line does, as long as the loop keeps running
\* and the hardware clock keeps advancing; it returns true with the line at the
\* awaited level and false with maxClockTicks clock ticks elapsed, and never
\* lets more than maxClockTicks of them elapse.
C15_WaitsReturn ==
  /\ <>(wait_loop.pc = "done")
  /\ [](wait_loop.pc # "idle" => wait_loop.elapsed <= wait_loop.maxClockTicks)
  /\ [](wait_loop.pc = "done"
          => IF wait_loop.result
             THEN wait_loop.rx_high = wait_loop.for_high
             ELSE wait_loop.elapsed = wait_loop.maxClockTicks)

\* waitForRxLow(255) called one tick before the clock overflowed: it timed out
\* with the clock at 254, the line high all the way.
C15_Witness ==
  /\ wait_loop.pc = "done"
  /\ ~wait_loop.result
  /\ ~wait_loop.for_high /\ wait_loop.rx_high
  /\ wait_loop.maxClockTicks = kPostBreakTimeout
  /\ wait_loop.base_clock = kClockModulus - 1
  /\ wait_loop.clock = kPostBreakTimeout - 1

\* ----- C16 -----

\* C16: for each of the three busy waits, the decoder the ISR leaves when the
\* wait timed out differs from the one it leaves when the awaited level was
\* seen in time: the wait for the line's release after a break, the wait for
\* the first start bit, and the wait for the next start bit after a byte.
C16_TimeoutBranches ==
  /\ (state = "DETECT_BREAK" /\ low_bits_counter_ = kBreakLowBits - 1)
     => /\ TimerISR(Decoder, FALSE, kPostBreakTimeout, 0) # TimerISR(Decoder, FALSE, 0, 0)
        /\ TimerISR(Decoder, FALSE, 0, kPostBreakTimeout) # TimerISR(Decoder, FALSE, 0, 0)
  /\ (state = "READ_DATA" /\ bits_read_in_byte_ = 9)
     => TimerISR(Decoder, TRUE, 0, kClockTicksPerBit * kInterByteBits) # TimerISR(Decoder, TRUE, 0, 0)

\* ----- C17 -----

\* C17: no anomaly is lost: as long as the ISR has raised an error that no
\* hasErrors() has reported yet, the error flag is set, so that the next
\* hasErrors() returns true; the flag is not cleared before.
C17_NoAnomalyLost == err_watch.unseen => error_flag

\* ----- C18 -----

\* C18: no slot ever holds more than 11 bytes; and while the receiver is in
\* READ_DATA, bytes_read_ is the number of bytes of the in-progress slot and is
\* at most 10, so that the byte handle_isr appends at the next stop bit goes to
\* an index below 11.
C18_NoSlotOverflow ==
  /\ \A i \in 0 .. kMaxFrameBuffers - 1 : Len(rx_frame_buffers[i]) <= kMaxBytes
  /\ Len(request_buffer) <= kMaxBytes
  /\ state = "READ_DATA"
     => /\ bytes_read_ = Len(rx_frame_buffers[head_frame_buffer])
        /\ bytes_read_ <= kMaxBytes - 1

\* The eleventh byte of a frame is about to be appended: 10 bytes are in the
\* slot and the stop bit is next; a frame was completed in the slot before.
C18_Witness ==
  /\ state = "READ_DATA"
  /\ bits_read_in_byte_ = 9
  /\ bytes_read_ = kMaxBytes - 1
  /\ Len(rx_frame_buffers[head_frame_buffer]) = kMaxBytes - 1
  /\ head_frame_buffer = 1

\* ----- C19 -----

\* The sequence fs without its i-th element.
Without(fs, i) == SubSeq(fs, 1, i - 1) \o SubSeq(fs, i + 1, Len(fs))

\* The position among the unread frames of the oldest frame of the ring.
OldestOfRing == IF request_buffer_has_data THEN 2 ELSE 1

\* C19: the frames main has still to get are always in the order of their
\* completion and all later than the last frame returned; a step changes them
\* in one of three ways only: a tick appends the frame it completes; a tick that
\* completes a frame with the ring full (an overrun, which sets the error flag)
\* drops the oldest frame of the ring and appends the new one; the last
\* statement of readNextFrame removes the first, which is the frame the call
\* returns.  And the frame readNextFrame copies out is the oldest unread one,
\* later than the frame the previous call returned.
C19_FramesInOrder ==
  [][ /\ IdsIncrease(UnreadFrames')
      /\ (UnreadFrames' # << >> /\ read_pc' # "clear")
         => FrameId(buffer') < FrameId(UnreadFrames'[1])
      /\ readNextFrame_copy
         => /\ buffer' = UnreadFrames[1]
            /\ buffer' = sent[FrameId(buffer') + 1]
            /\ FrameId(buffer') > FrameId(buffer)
      /\ UnreadFrames' # UnreadFrames
         => \/ /\ FrameEndsStep
               /\ sent' = Append(sent, sent'[Len(sent')])
               /\ \/ UnreadFrames' = Append(UnreadFrames, sent'[Len(sent')])
                  \/ /\ (head_frame_buffer + 1) % kMaxFrameBuffers = tail_frame_buffer
                     /\ error_flag'
                     /\ UnreadFrames' =
                          Append(Without(UnreadFrames, OldestOfRing), sent'[Len(sent')])
            \/ /\ readNextFrame_clear
               /\ buffer = UnreadFrames[1]
               /\ UnreadFrames' = Tail(UnreadFrames)
    ]_vars

\* Main has got frame 0; frames 1 to 8 then filled request_buffer and the ring,
\* and frame 9 overran the ring, which evicted frame 2: frames 1 and 3 to 9 are
\* what main has still to get.
C19_Witness ==
  /\ read_pc = "idle"
  /\ FrameId(buffer) = 0
  /\ Len(sent) = 10
  /\ Len(UnreadFrames) = kMaxFrameBuffers
  /\ FrameId(UnreadFrames[1]) = 1
  /\ FrameId(UnreadFrames[2]) = 3

\* ----- C20 -----

\* Frame k is among the completed frames main has still to get.
Unread(k) == \E i \in 1 .. Len(UnreadFrames) : FrameId(UnreadFrames[i]) = k

\* A call of readNextFrame has returned frame k.
Returned(k) == read_pc = "idle" /\ FrameId(buffer) = k

\* C20: with the ISR and readNextFrame both running again and again, every
\* frame that was enqueued is eventually returned by readNextFrame (the ring is
\* never overrun here, so no frame is evicted), and from some point on, when
\* the line completes no more frames, the ring stays empty (head = tail) with
\* nothing left in request_buffer.
C20_FramesEventuallyReturned ==
  /\ \A k \in 0 .. MaxFramesLive - 1 : Unread(k) ~> Returned(k)
  /\ <>[](head_frame_buffer = tail_frame_buffer /\ ~request_buffer_has_data)

\* Two frames were completed, both were returned, the second by the call that
\* has just ended, and the ring is empty.
C20_Witness ==
  /\ Len(sent) = 2
  /\ Returned(1) /\ ret
  /\ head_frame_buffer = tail_frame_buffer
  /\ head_frame_buffer = 2
  /\ ~request_buffer_has_data

====
